---- MODULE Spec2Model ----
(***************************************************************************)
(* A model of server.js: the distribution registry, computeCDF,            *)
(* computeStatistics and the GET /distribution/:type handler.              *)
(*                                                                         *)
(* JavaScript numbers are modelled as decimal floating-point values        *)
(*     [k |-> "num", m |-> mantissa, e |-> exponent]   (value m * 10^e)    *)
(* with a nine-digit signed mantissa (10^8 <= |m| < 10^9, or m = 0),       *)
(* together with the three special values Infinity, -Infinity and NaN.     *)
(* Every arithmetic operator rounds its result to nine digits, the way an  *)
(* IEEE-754 operation rounds to 53 bits; integers below 10^9 and short     *)
(* decimals such as 0.1 are exact.  Negative zero is not modelled.         *)
(***************************************************************************)
EXTENDS Integers, Sequences, FiniteSets, TLC

VARIABLES
  distributions,  \* the registry object
  inflight,       \* the requests accepted and not yet handled
  req,            \* the request handled last
  res,            \* the response to it
  seen            \* an earlier request and its response, as a client saw them

vars == <<distributions, inflight, req, res, seen>>

None == [type |-> "none"]

----------------------------------------------------------------------------
(* JavaScript numbers *)

P8 == 10^8
P9 == 10^9

NaN == [k |-> "nan", m |-> 0, e |-> 0]
Infinity == [k |-> "inf", m |-> 1, e |-> 0]
NegInfinity == [k |-> "inf", m |-> -1, e |-> 0]
Zero == [k |-> "num", m |-> 0, e |-> 0]

IsNaN(a) == a.k = "nan"
IsInf(a) == a.k = "inf"
IsFinite(a) == a.k = "num"
IsZero(a) == a.k = "num" /\ a.m = 0

AbsInt(n) == IF n < 0 THEN -n ELSE n
Sgn(a) == IF a.m > 0 THEN 1 ELSE IF a.m < 0 THEN -1 ELSE 0

\* 10^d for 0 <= d <= 9.
Pow10(d) == 10^d

\* The number of decimal digits of n, 0 < n < 2^31.
NumDigits(n) ==
  IF n < 100000
    THEN IF n < 100 THEN (IF n < 10 THEN 1 ELSE 2)
         ELSE IF n < 1000 THEN 3 ELSE IF n < 10000 THEN 4 ELSE 5
    ELSE IF n < 10000000 THEN (IF n < 1000000 THEN 6 ELSE 7)
         ELSE IF n < P8 THEN 8 ELSE IF n < P9 THEN 9 ELSE 10

\* Overflow to Infinity above about 1.8e308 and underflow to 0 below about
\* 5e-324, as a double does.
Finite(sign, mag, e) ==
  IF e + 8 > 308 THEN (IF sign < 0 THEN NegInfinity ELSE Infinity)
  ELSE IF e + 8 < -324 THEN Zero
  ELSE [k |-> "num", m |-> sign * mag, e |-> e]

\* The number sign * mag * 10^e (0 <= mag < 2^31) rounded to nine digits,
\* halves away from zero.
Round(sign, mag, e) ==
  IF mag = 0 THEN Zero
  ELSE LET d == NumDigits(mag) IN
    IF d <= 9 THEN Finite(sign, mag * Pow10(9 - d), e - (9 - d))
    ELSE LET q == (mag + 5) \div 10 IN
      IF q >= P9 THEN Finite(sign, P8, e + 2) ELSE Finite(sign, q, e + 1)

FromInt(n) == Round(IF n < 0 THEN -1 ELSE 1, AbsInt(n), 0)

\* A decimal literal: n / 10^d.
Dec(n, d) == Round(IF n < 0 THEN -1 ELSE 1, AbsInt(n), -d)

Neg(a) == IF IsNaN(a) THEN NaN ELSE [a EXCEPT !.m = -a.m]

\* mag / 10^d rounded (d >= 0), for aligning the smaller operand of a sum.
ShiftRight(mag, d) ==
  IF d = 0 THEN mag
  ELSE IF d >= 10 THEN 0
  ELSE (mag + 5 * Pow10(d - 1)) \div Pow10(d)

\* a + b
Add(a, b) ==
  IF IsNaN(a) \/ IsNaN(b) THEN NaN
  ELSE IF IsInf(a) THEN (IF IsInf(b) /\ a.m # b.m THEN NaN ELSE a)
  ELSE IF IsInf(b) THEN b
  ELSE IF a.m = 0 THEN b
  ELSE IF b.m = 0 THEN a
  ELSE LET hi == IF a.e >= b.e THEN a ELSE b
           lo == IF a.e >= b.e THEN b ELSE a
           d == hi.e - lo.e
           s == hi.m + Sgn(lo) * ShiftRight(AbsInt(lo.m), d)
       IN Round(IF s < 0 THEN -1 ELSE 1, AbsInt(s), hi.e)

\* a - b
Sub(a, b) == Add(a, Neg(b))

\* a * b: the 18-digit product of the mantissas from three-digit limbs,
\* rounded to nine digits.
Mul(a, b) ==
  IF IsNaN(a) \/ IsNaN(b) THEN NaN
  ELSE IF IsInf(a) \/ IsInf(b)
    THEN (IF a.m = 0 \/ b.m = 0 THEN NaN
          ELSE IF Sgn(a) * Sgn(b) > 0 THEN Infinity ELSE NegInfinity)
  ELSE IF a.m = 0 \/ b.m = 0 THEN Zero
  ELSE LET x == AbsInt(a.m)
           y == AbsInt(b.m)
           x0 == x % 1000
           x1 == (x \div 1000) % 1000
           x2 == x \div 1000000
           y0 == y % 1000
           y1 == (y \div 1000) % 1000
           y2 == y \div 1000000
           low == (x0 * y1 + x1 * y0) * 1000 + x0 * y0
           mid == x0 * y2 + x1 * y1 + x2 * y0 + (low \div 1000000)
           hi == x2 * y2 * 1000 + x1 * y2 + x2 * y1 + (mid \div 1000)
           lo == (mid % 1000) * 1000000 + (low % 1000000)
           sign == Sgn(a) * Sgn(b)
           e == a.e + b.e
       IN IF hi >= P8
            THEN Round(sign, hi + (IF lo >= 5 * P8 THEN 1 ELSE 0), e + 9)
            ELSE Round(sign, hi * 10 + ((lo + 5 * 10000000) \div P8), e + 8)

\* One digit of a long division: <<digit, remainder>> of 10 * r by d, for
\* 0 <= r < d < 10^9, by doubling, so that no intermediate exceeds 2 * d.
DivDigit(r, d) ==
  LET ta == 2 * r
      qa == IF ta >= d THEN 1 ELSE 0
      ra == ta - qa * d
      tb == 2 * ra
      qb == IF tb >= d THEN 1 ELSE 0
      rb == tb - qb * d
      tc == rb + r
      qc == IF tc >= d THEN 1 ELSE 0
      rc == tc - qc * d
      td == 2 * rc
      qd == IF td >= d THEN 1 ELSE 0
  IN <<4 * qa + 2 * qb + 2 * qc + qd, td - qd * d>>

\* The long division of a remainder r by d continued for n more digits after
\* the quotient q: <<quotient, remainder>>.
RECURSIVE DivDigits(_, _, _, _)
DivDigits(q, r, d, n) ==
  IF n = 0 THEN <<q, r>>
  ELSE LET s == DivDigit(r, d) IN DivDigits(q * 10 + s[1], s[2], d, n - 1)

\* a / b
Div(a, b) ==
  IF IsNaN(a) \/ IsNaN(b) THEN NaN
  ELSE IF IsInf(a)
    THEN (IF IsInf(b) THEN NaN
          ELSE IF Sgn(a) * (IF b.m < 0 THEN -1 ELSE 1) > 0 THEN Infinity
          ELSE NegInfinity)
  ELSE IF IsInf(b) THEN Zero
  ELSE IF b.m = 0
    THEN (IF a.m = 0 THEN NaN ELSE IF a.m > 0 THEN Infinity ELSE NegInfinity)
  ELSE IF a.m = 0 THEN Zero
  ELSE LET x == AbsInt(a.m)
           y == AbsInt(b.m)
           big == x >= y
           \* nine quotient digits, the first of them non-zero
           qr == IF big THEN DivDigits(x \div y, x % y, y, 8)
                        ELSE DivDigits(0, x, y, 9)
           up == IF 2 * qr[2] >= y THEN 1 ELSE 0
       IN Round(Sgn(a) * Sgn(b), qr[1] + up,
                a.e - b.e - (IF big THEN 8 ELSE 9))

\* a < b, a <= b, a = b with JavaScript's treatment of NaN (always false).
Lt(a, b) ==
  IF IsNaN(a) \/ IsNaN(b) THEN FALSE
  ELSE IF IsInf(a) THEN a.m < 0 /\ ~(IsInf(b) /\ b.m < 0)
  ELSE IF IsInf(b) THEN b.m > 0
  ELSE IF Sgn(a) # Sgn(b) THEN Sgn(a) < Sgn(b)
  ELSE IF a.m = 0 THEN FALSE
  ELSE IF a.e # b.e THEN (IF a.m > 0 THEN a.e < b.e ELSE a.e > b.e)
  ELSE a.m < b.m
NumEq(a, b) == ~IsNaN(a) /\ ~IsNaN(b) /\ a = b
Le(a, b) == Lt(a, b) \/ NumEq(a, b)
Ge(a, b) == Le(b, a)
Gt(a, b) == Lt(b, a)

----------------------------------------------------------------------------
(* Math, Number and parseFloat *)

MathPI == Dec(314159265, 8)

MathAbs(a) == IF IsNaN(a) THEN NaN ELSE [a EXCEPT !.m = AbsInt(a.m)]

\* Number.isInteger
NumberIsInteger(a) ==
  /\ IsFinite(a)
  /\ \/ a.m = 0
     \/ a.e >= 0
     \/ a.e >= -8 /\ a.m % Pow10(-a.e) = 0

\* The integer an integral number below 10^9 in magnitude stands for.
ToInt(a) == IF a.m = 0 THEN 0 ELSE a.m \div Pow10(-a.e)

\* The integer square root of n >= 0, by Newton's iteration from above.
RECURSIVE IntSqrtFrom(_, _)
IntSqrtFrom(n, g) ==
  LET h == (g + (n \div g)) \div 2 IN IF h >= g THEN g ELSE IntSqrtFrom(n, h)
IntSqrt(n) == IF n = 0 THEN 0 ELSE IntSqrtFrom(n, 31623)

\* Math.sqrt: the square root of the leading digits, refined by one Newton
\* step in nine-digit arithmetic; exact for perfect squares.
MathSqrt(a) ==
  IF IsNaN(a) THEN NaN
  ELSE IF a.m < 0 THEN NaN
  ELSE IF IsInf(a) \/ a.m = 0 THEN a
  ELSE LET even == a.e % 2 = 0
           n == IF even THEN a.m ELSE a.m \div 10
           h == (IF even THEN a.e ELSE a.e + 1) \div 2
           g == Round(1, IntSqrt(n), h)
       IN Mul(Dec(5, 1), Add(g, Div(a, g)))

\* The series 1 + r + r^2/2! + ... in units of 10^-4, from its k-th term on.
RECURSIVE ExpSeries(_, _, _)
ExpSeries(r, term, k) ==
  IF term = 0 THEN 0
  ELSE term + ExpSeries(r, (term * r + k * 5000) \div (k * 10000), k + 1)

\* Math.exp, to about four significant digits: the argument is reduced by
\* multiples of ln 10 = 2.3026 and the series is summed in units of 10^-4.
MathExp(a) ==
  IF IsNaN(a) THEN NaN
  ELSE IF IsInf(a) THEN (IF a.m > 0 THEN Infinity ELSE Zero)
  ELSE IF a.m = 0 THEN FromInt(1)
  ELSE IF a.e + 8 >= 3 THEN (IF a.m > 0 THEN Infinity ELSE Zero)
  ELSE LET y == ShiftRight(AbsInt(a.m), -(a.e + 4))
           n == y \div 23026
           r == y % 23026
       IN IF a.m > 0 THEN Round(1, ExpSeries(r, 10000, 1), n - 4)
          ELSE IF r = 0 THEN Round(1, 1, -n)
          ELSE Round(1, ExpSeries(23026 - r, 10000, 1), -(n + 1) - 4)

\* base ** k for an integer k >= 0, by repeated multiplication.
RECURSIVE PowInt(_, _)
PowInt(base, k) == IF k = 0 THEN FromInt(1) ELSE Mul(base, PowInt(base, k - 1))

\* Math.pow and the ** operator.  Every exponent the handler passes is an
\* integer (2, a sampled integer x, or n - x); x ** 0 is 1 even for NaN.
MathPow(base, ex) ==
  IF IsNaN(ex) THEN NaN
  ELSE IF ex.m = 0 /\ IsFinite(ex) THEN FromInt(1)
  ELSE IF IsNaN(base) \/ ~NumberIsInteger(ex) THEN NaN
  ELSE IF ex.m > 0 THEN PowInt(base, ToInt(ex))
  ELSE Div(FromInt(1), PowInt(base, -ToInt(ex)))

Digits == {"0", "1", "2", "3", "4", "5", "6", "7", "8", "9"}
DigitValue(c) ==
  CASE c = "0" -> 0 [] c = "1" -> 1 [] c = "2" -> 2 [] c = "3" -> 3
    [] c = "4" -> 4 [] c = "5" -> 5 [] c = "6" -> 6 [] c = "7" -> 7
    [] c = "8" -> 8 [] c = "9" -> 9

\* The first index from i on at which the string s holds no digit.
RECURSIVE SkipDigits(_, _)
SkipDigits(s, i) ==
  IF i <= Len(s) /\ s[i] \in Digits THEN SkipDigits(s, i + 1) ELSE i

\* The integer the digits s[i..j-1] spell, after the value n.
RECURSIVE ReadDigits(_, _, _, _)
ReadDigits(s, i, j, n) ==
  IF i >= j THEN n ELSE ReadDigits(s, i + 1, j, 10 * n + DigitValue(s[i]))

\* parseFloat on a string given as the sequence of its characters: an
\* optional sign, digits, an optional point and digits; whatever follows
\* is ignored, and a string that does not start with a number gives NaN.
parseFloat(s) ==
  LET signed == Len(s) > 0 /\ s[1] \in {"-", "+"}
      from == IF signed THEN 2 ELSE 1
      dot == SkipDigits(s, from)
      hasDot == dot <= Len(s) /\ s[dot] = "."
      end == IF hasDot THEN SkipDigits(s, dot + 1) ELSE dot
      nFrac == IF hasDot THEN end - dot - 1 ELSE 0
      whole == ReadDigits(s, from, dot, 0)
  IN IF (dot - from) + nFrac = 0 THEN NaN
     ELSE Round(IF signed /\ s[1] = "-" THEN -1 ELSE 1,
                IF hasDot THEN ReadDigits(s, dot + 1, end, whole) ELSE whole,
                -nFrac)

----------------------------------------------------------------------------
(* mathjs *)

\* product(i, n) of mathjs: i * (i + 1) * ... * n, halving the range.
RECURSIVE product(_, _)
product(i, n) ==
  IF n < i THEN FromInt(1)
  ELSE IF n = i THEN FromInt(n)
  ELSE LET half == (n + i) \div 2
       IN Mul(product(i, half), product(half + 1, n))

\* math.factorial for the non-negative integers the handler passes.
mathFactorial(x) == product(1, ToInt(x))

\* math.combinations throws a TypeError unless n and k are non-negative
\* integers with k <= n.
combinationsThrows(n, k) ==
  \/ ~NumberIsInteger(n) \/ n.m < 0
  \/ ~NumberIsInteger(k) \/ k.m < 0
  \/ Gt(k, n)

\* The binomial coefficient, each partial product divided as soon as the
\* division is exact.
RECURSIVE Choose(_, _, _, _)
Choose(n, k, i, acc) ==
  IF i > k THEN acc ELSE Choose(n, k, i + 1, (acc * (n - k + i)) \div i)

mathCombinations(n, k) ==
  LET nn == ToInt(n)
      kk == ToInt(k)
  IN FromInt(Choose(nn, IF kk < nn - kk THEN kk ELSE nn - kk, 1, 1))

\* At most n turns of the loop of math.range: while x is smaller than end,
\* push x and add step.
RECURSIVE rangeTurns(_, _, _, _)
rangeTurns(st, end, step, n) ==
  IF n = 0 \/ ~Lt(st.x, end) THEN st
  ELSE rangeTurns([array |-> Append(st.array, st.x), x |-> Add(st.x, step)],
                  end, step, n - 1)

\* The loop of math.range, run sixteen turns at a time.
RECURSIVE rangeLoop(_, _, _)
rangeLoop(st, end, step) ==
  IF ~Lt(st.x, end) THEN st.array
  ELSE rangeLoop(rangeTurns(st, end, step, 16), end, step)

\* math.range(start, end, step).toArray() for a positive step: end excluded.
mathRange(start, end, step) == rangeLoop([array |-> <<>>, x |-> start], end, step)

----------------------------------------------------------------------------
(* The registry *)

\* Array.prototype.map: the array of f(a[1]), f(a[2]), ... as a sequence.
ArrayMap(a, f(_)) == [i \in 1..Len(a) |-> f(a[i])] \o <<>>

\* An argument of a function with default parameters called as f(...params):
\* the i-th element if there is one, the default otherwise.
Arg(params, i, default) == IF i <= Len(params) THEN params[i] ELSE default

normal_pdf(x, params) ==
  LET mu == Arg(params, 1, FromInt(0))
      sigma == Arg(params, 2, FromInt(1))
  IN Mul(Div(FromInt(1), Mul(sigma, MathSqrt(Mul(FromInt(2), MathPI)))),
         MathExp(Mul(Dec(-5, 1), MathPow(Div(Sub(x, mu), sigma), FromInt(2)))))
normal_mean(params) == Arg(params, 1, FromInt(0))
normal_variance(params) == MathPow(Arg(params, 1, FromInt(1)), FromInt(2))

uniform_pdf(x, params) ==
  LET a == Arg(params, 1, FromInt(0))
      b == Arg(params, 2, FromInt(1))
  IN IF Ge(x, a) /\ Le(x, b) THEN Div(FromInt(1), Sub(b, a)) ELSE Zero
uniform_mean(params) ==
  Div(Add(Arg(params, 1, FromInt(0)), Arg(params, 2, FromInt(1))), FromInt(2))
uniform_variance(params) ==
  Div(MathPow(Sub(Arg(params, 2, FromInt(1)), Arg(params, 1, FromInt(0))),
              FromInt(2)),
      FromInt(12))

exponential_pdf(x, params) ==
  LET lambda == Arg(params, 1, FromInt(1))
  IN IF Ge(x, Zero) THEN Mul(lambda, MathExp(Mul(Neg(lambda), x))) ELSE Zero
exponential_mean(params) == Div(FromInt(1), Arg(params, 1, FromInt(1)))
exponential_variance(params) ==
  Div(FromInt(1), MathPow(Arg(params, 1, FromInt(1)), FromInt(2)))

poisson_pdf(x, params) ==
  LET lambda == Arg(params, 1, FromInt(3))
  IN IF NumberIsInteger(x) /\ Ge(x, Zero)
       THEN Div(Mul(MathExp(Neg(lambda)), MathPow(lambda, x)), mathFactorial(x))
       ELSE Zero
poisson_mean(params) == Arg(params, 1, FromInt(3))
poisson_variance(params) == Arg(params, 1, FromInt(3))

rayleigh_pdf(x, params) ==
  LET sigma == Arg(params, 1, FromInt(1))
  IN IF Ge(x, Zero)
       THEN Mul(Div(x, MathPow(sigma, FromInt(2))),
                MathExp(Div(Neg(MathPow(x, FromInt(2))),
                            Mul(FromInt(2), MathPow(sigma, FromInt(2))))))
       ELSE Zero
rayleigh_mean(params) ==
  Mul(Arg(params, 1, FromInt(1)), MathSqrt(Div(MathPI, FromInt(2))))
rayleigh_variance(params) ==
  Mul(Sub(FromInt(2), Div(MathPI, FromInt(2))),
      MathPow(Arg(params, 1, FromInt(1)), FromInt(2)))

laplacian_pdf(x, params) ==
  LET mu == Arg(params, 1, FromInt(0))
      b == Arg(params, 2, FromInt(1))
  IN Mul(Div(FromInt(1), Mul(FromInt(2), b)),
         MathExp(Div(Neg(MathAbs(Sub(x, mu))), b)))
laplacian_mean(params) == Arg(params, 1, FromInt(0))
laplacian_variance(params) ==
  Mul(FromInt(2), MathPow(Arg(params, 1, FromInt(1)), FromInt(2)))

\* binomial.pdf throws when math.combinations(n, x) does.
binomial_pdfThrows(x, params) ==
  combinationsThrows(Arg(params, 1, FromInt(10)), x)
binomial_pdf(x, params) ==
  LET n == Arg(params, 1, FromInt(10))
      p == Arg(params, 2, Dec(5, 1))
  IN Mul(Mul(mathCombinations(n, x), MathPow(p, x)),
         MathPow(Sub(FromInt(1), p), Sub(n, x)))
binomial_mean(params) ==
  Mul(Arg(params, 1, FromInt(10)), Arg(params, 2, Dec(5, 1)))
binomial_variance(params) ==
  Mul(Mul(Arg(params, 1, FromInt(10)), Arg(params, 2, Dec(5, 1))),
      Sub(FromInt(1), Arg(params, 2, Dec(5, 1))))

\* The object literal `distributions`.  A descriptor's three functions are
\* named by its `fn` field and applied by pdf, mean and variance below.
Registry ==
  [normal |->
     [fn |-> "normal",
      cdfExpression |-> "0.5 * (1 + erf((x - mu) / (sigma * sqrt(2))))",
      pdfExpression |-> "(1 / (sigma sqrt(2 pi))) * exp(-0.5 * ((x - mu) / sigma)^2)"],
   uniform |->
     [fn |-> "uniform",
      cdfExpression |-> "((x - a) / (b - a)) for a <= x <= b",
      pdfExpression |-> "1 / (b - a) for a <= x <= b"],
   exponential |->
     [fn |-> "exponential",
      cdfExpression |-> "1 - exp(-lambda x) for x >= 0",
      pdfExpression |-> "lambda * exp(-lambda x) for x >= 0"],
   poisson |->
     [fn |-> "poisson",
      cdfExpression |-> "Sum (e^(-lambda) * lambda^k / k!) from k=0 to x",
      pdfExpression |-> "(e^(-lambda) * lambda^x) / x!"],
   rayleigh |->
     [fn |-> "rayleigh",
      cdfExpression |-> "1 - exp(-x^2 / (2 * sigma^2)) for x >= 0",
      pdfExpression |-> "(x / sigma^2) * exp(-x^2 / (2 * sigma^2)) for x >= 0"],
   laplacian |->
     [fn |-> "laplacian",
      cdfExpression |-> "0.5 * (1 + sign(x - mu) * (1 - exp(-|x - mu| / b)))",
      pdfExpression |-> "(1 / (2 * b)) * exp(-|x - mu| / b)"],
   binomial |->
     [fn |-> "binomial",
      cdfExpression |-> "Sum (nCx * p^x * (1-p)^(n-x)) from x=0 to x",
      pdfExpression |-> "nCx * p^x * (1-p)^(n-x)"]]

\* The properties every object literal inherits from Object.prototype (those
\* the requests of the model name).
ObjectPrototypeKeys == {"constructor", "toString", "__proto__"}
Inherited == [fn |-> "Object.prototype"]
Undefined == [fn |-> "undefined"]

\* obj[key]: an own property, an inherited one, or undefined.
Get(obj, key) ==
  IF key \in DOMAIN obj THEN obj[key]
  ELSE IF key \in ObjectPrototypeKeys THEN Inherited
  ELSE Undefined

Truthy(v) == v # Undefined

\* dist.pdf is a function only on the registry's own descriptors.
HasPdf(dist) == dist.fn \in DOMAIN Registry

pdfThrows(dist, x, params) ==
  IF dist.fn = "binomial" THEN binomial_pdfThrows(x, params) ELSE FALSE

pdf(dist, x, params) ==
  CASE dist.fn = "normal" -> normal_pdf(x, params)
    [] dist.fn = "uniform" -> uniform_pdf(x, params)
    [] dist.fn = "exponential" -> exponential_pdf(x, params)
    [] dist.fn = "poisson" -> poisson_pdf(x, params)
    [] dist.fn = "rayleigh" -> rayleigh_pdf(x, params)
    [] dist.fn = "laplacian" -> laplacian_pdf(x, params)
    [] dist.fn = "binomial" -> binomial_pdf(x, params)

mean(dist, params) ==
  CASE dist.fn = "normal" -> normal_mean(params)
    [] dist.fn = "uniform" -> uniform_mean(params)
    [] dist.fn = "exponential" -> exponential_mean(params)
    [] dist.fn = "poisson" -> poisson_mean(params)
    [] dist.fn = "rayleigh" -> rayleigh_mean(params)
    [] dist.fn = "laplacian" -> laplacian_mean(params)
    [] dist.fn = "binomial" -> binomial_mean(params)

variance(dist, params) ==
  CASE dist.fn = "normal" -> normal_variance(params)
    [] dist.fn = "uniform" -> uniform_variance(params)
    [] dist.fn = "exponential" -> exponential_variance(params)
    [] dist.fn = "poisson" -> poisson_variance(params)
    [] dist.fn = "rayleigh" -> rayleigh_variance(params)
    [] dist.fn = "laplacian" -> laplacian_variance(params)
    [] dist.fn = "binomial" -> binomial_variance(params)

----------------------------------------------------------------------------
(* computeCDF and computeStatistics *)

\* At most n turns of the summing loop of computeCDF; st.cdfValues holds the
\* running sums pushed so far and st.cumulativeSum the last of them.
RECURSIVE cdfTurns(_, _, _)
cdfTurns(st, pdfValues, n) ==
  IF n = 0 \/ Len(st.cdfValues) >= Len(pdfValues) THEN st
  ELSE LET sum == Add(st.cumulativeSum, pdfValues[Len(st.cdfValues) + 1])
       IN cdfTurns([cdfValues |-> Append(st.cdfValues, sum),
                    cumulativeSum |-> sum], pdfValues, n - 1)

\* The summing loop, run sixteen turns at a time.
RECURSIVE cdfLoop(_, _)
cdfLoop(st, pdfValues) ==
  IF Len(st.cdfValues) >= Len(pdfValues) THEN st.cdfValues
  ELSE cdfLoop(cdfTurns(st, pdfValues, 16), pdfValues)

\* computeCDF with the total read one element early
\* (cdfValues[cdfValues.length - 2]).
computeCDFEarlyTotal(pdfValues) ==
  LET cdfValues == cdfLoop([cdfValues |-> <<>>, cumulativeSum |-> Zero],
                           pdfValues)
      total == cdfValues[Len(cdfValues) - 1]
  IN ArrayMap(cdfValues, LAMBDA val : Div(val, total))

\* computeCDF with the loop stopping one element early
\* (i < pdfValues.length - 1).
computeCDFShortLoop(pdfValues) ==
  LET cdfValues == cdfLoop([cdfValues |-> <<>>, cumulativeSum |-> Zero],
                           SubSeq(pdfValues, 1, Len(pdfValues) - 1))
      total == cdfValues[Len(cdfValues)]
  IN ArrayMap(cdfValues, LAMBDA val : Div(val, total))

\* computeCDF guarding the division: zeros when the total is 0.
computeCDFGuarded(pdfValues) ==
  LET cdfValues == cdfLoop([cdfValues |-> <<>>, cumulativeSum |-> Zero],
                           pdfValues)
      total == cdfValues[Len(cdfValues)]
  IN ArrayMap(cdfValues,
              LAMBDA val : IF IsZero(total) THEN Zero ELSE Div(val, total))

computeCDF(pdfValues) ==
  LET cdfValues == cdfLoop([cdfValues |-> <<>>, cumulativeSum |-> Zero],
                           pdfValues)
      total == cdfValues[Len(cdfValues)]
  IN ArrayMap(cdfValues, LAMBDA val : Div(val, total))

\* computeStatistics with the square root left out.
computeStatisticsNoSqrt(registry, distributionType, params) ==
  [mean |-> mean(Get(registry, distributionType), params),
   variance |-> variance(Get(registry, distributionType), params),
   stdDev |-> variance(Get(registry, distributionType), params)]

\* const stdDev = Math.sqrt(variance); return { mean, variance, stdDev }
statistics(m, v) == [mean |-> m, variance |-> v, stdDev |-> MathSqrt(v)]

computeStatistics(registry, distributionType, params) ==
  statistics(mean(Get(registry, distributionType), params),
             variance(Get(registry, distributionType), params))

----------------------------------------------------------------------------
(* The server *)

\* queryParams with the array kept between requests: a request without
\* query keys reads the parameters of the request handled before it.
queryParamsKept(query) ==
  ArrayMap(IF query = <<>> /\ req # None THEN req.query ELSE query,
           LAMBDA value : parseFloat(value))

\* Object.keys(req.query).map((key) => parseFloat(req.query[key]))
queryParams(query) == ArrayMap(query, LAMBDA value : parseFloat(value))

\* sampleRange with && for ||: no kind takes the integer axis.
sampleRangeAnd(type) ==
  IF type = "poisson" /\ type = "binomial"
    THEN mathRange(FromInt(0), FromInt(20), FromInt(1))
    ELSE mathRange(FromInt(-5), FromInt(5), Dec(1, 1))

\* The x-axis of a kind: math.range(0, 20, 1) or math.range(-5, 5, 0.1).
sampleRange(type) ==
  IF type = "poisson" \/ type = "binomial"
    THEN mathRange(FromInt(0), FromInt(20), FromInt(1))
    ELSE mathRange(FromInt(-5), FromInt(5), Dec(1, 1))

\* JSON has no NaN and no infinities: JSON.stringify writes them as null.
Null == [k |-> "null"]
JSONNumber(v) == IF IsFinite(v) THEN v ELSE Null

\* res.json(body) of the result bundle: status 200, `body` the object the
\* handler built and `sent` what the client receives.  `ran` lists the steps
\* of the computation the handler started.
resJson(body) ==
  [status |-> 200,
   body |-> body,
   sent |-> [xValues |-> ArrayMap(body.xValues, JSONNumber),
             pdfValues |-> ArrayMap(body.pdfValues, JSONNumber),
             cdfValues |-> ArrayMap(body.cdfValues, JSONNumber),
             stats |-> [mean |-> JSONNumber(body.stats.mean),
                        variance |-> JSONNumber(body.stats.variance),
                        stdDev |-> JSONNumber(body.stats.stdDev)],
             pdfExpression |-> body.pdfExpression,
             cdfExpression |-> body.cdfExpression],
   ran |-> <<"params", "xValues", "pdfValues", "cdfValues", "stats">>]

\* An exception thrown while pdfValues is computed ends the handler; Express
\* answers 500.
uncaught(error) ==
  [status |-> 500,
   body |-> [error |-> error],
   sent |-> [error |-> error],
   ran |-> <<"params", "xValues", "pdfValues">>]

\* The handler from pdfValues on: cdfValues, stats and res.json.
handlerFromPdfValues(registry, type, params, xValues, pdfValues) ==
  resJson([xValues |-> xValues,
           pdfValues |-> pdfValues,
           cdfValues |-> computeCDF(pdfValues),
           stats |-> computeStatistics(registry, type, params),
           pdfExpression |-> Get(registry, type).pdfExpression,
           cdfExpression |-> Get(registry, type).cdfExpression])

\* The handler from params and xValues on: xValues.map of the density, which
\* throws when distributions[type].pdf is no function or itself throws.
handlerFromParams(registry, type, params, xValues) ==
  IF \/ ~HasPdf(Get(registry, type))
     \/ \E i \in 1..Len(xValues) :
          pdfThrows(Get(registry, type), xValues[i], params)
    THEN uncaught("TypeError")
    ELSE handlerFromPdfValues(
           registry, type, params, xValues,
           ArrayMap(xValues, LAMBDA x : pdf(Get(registry, type), x, params)))

\* The handler of GET /distribution/:type, from the registry, the :type
\* segment and the query values to the response.
distributionHandler(registry, type, query) ==
  IF ~Truthy(Get(registry, type))
    THEN [status |-> 400,
          body |-> [error |-> "Invalid distribution type"],
          sent |-> [error |-> "Invalid distribution type"],
          ran |-> <<>>]
    ELSE handlerFromParams(registry, type, queryParams(query), sampleRange(type))

\* The values of the query string of a request, in the order of their keys,
\* each a string given as the sequence of its characters.
QueryValues ==
  { <<"0">>, <<"1">>, <<"-", "1">>, <<"0", ".", "5">>, <<"2", "0">>, <<"x">> }

\* The most query parameters a request carries.
MaxParams == 2

Queries == UNION {[1..n -> QueryValues] : n \in 0..MaxParams}

\* The :type segments the requests name: the seven registered kinds, three
\* properties of Object.prototype and an unknown name.
RequestedTypes ==
  DOMAIN Registry \cup ObjectPrototypeKeys \cup {"unknownthing"}

Init ==
  /\ distributions = Registry
  /\ inflight = <<>>
  /\ req = None
  /\ res = None
  /\ seen = None

\* GET /distribution/:type from a client that has no request outstanding:
\* the handler runs from the arrival of the request to its response.
GetDistribution(type, query) ==
  /\ res = None
  /\ inflight = <<>>
  /\ req' = [type |-> type, query |-> query]
  /\ res' = distributionHandler(distributions, type, query)
  /\ UNCHANGED <<distributions, inflight, seen>>

\* GET /
GetRoot ==
  /\ res = None
  /\ inflight = <<>>
  /\ req' = [type |-> "/", query |-> <<>>]
  /\ res' = [status |-> 200, body |-> "Backend is running!",
             sent |-> "Backend is running!", ran |-> <<>>]
  /\ UNCHANGED <<distributions, inflight, seen>>

\* The response has been written; the request's objects are dropped.
Respond ==
  /\ res # None
  /\ inflight = <<>>
  /\ req' = None
  /\ res' = None
  /\ UNCHANGED <<distributions, inflight, seen>>

Next ==
  \/ \E type \in RequestedTypes, query \in Queries : GetDistribution(type, query)
  \/ GetRoot
  \/ Respond

\* One client, one request at a time, over every type and query above.
Spec == Init /\ [][Next]_vars

----------------------------------------------------------------------------
(* Several requests in flight *)

\* The most requests accepted and not yet handled.
MaxInflight == 2

InterleavedTypes == {"poisson", "binomial"}
InterleavedQueries == { <<>>, << <<"2", "0">> >> }

\* A request arrives while others wait for the event loop.
Arrive(type, query) ==
  /\ Len(inflight) < MaxInflight
  /\ inflight' = Append(inflight, [type |-> type, query |-> query])
  /\ UNCHANGED <<distributions, req, res, seen>>

\* The event loop runs the handler on one of the waiting requests, to
\* completion.
Handle(i) ==
  /\ i \in 1..Len(inflight)
  /\ req' = inflight[i]
  /\ res' = distributionHandler(distributions, inflight[i].type, inflight[i].query)
  /\ inflight' = SubSeq(inflight, 1, i - 1) \o SubSeq(inflight, i + 1, Len(inflight))
  /\ seen' = IF seen = None THEN None
             ELSE [seen EXCEPT !.later = IF @ = "none" THEN "one" ELSE "more"]
  /\ UNCHANGED distributions

\* A client keeps the response it has just received; `later` tells how many
\* requests the server has handled since: none, one or more.
Observe ==
  /\ res # None
  /\ seen = None
  /\ seen' = [req |-> req, res |-> res, later |-> "none"]
  /\ UNCHANGED <<distributions, inflight, req, res>>

NextInterleaved ==
  \/ \E type \in InterleavedTypes, query \in InterleavedQueries : Arrive(type, query)
  \/ \E i \in 1..MaxInflight : Handle(i)
  \/ Observe

SpecInterleaved == Init /\ [][NextInterleaved]_vars

----------------------------------------------------------------------------
(* The claims *)

Kinds ==
  {"normal", "uniform", "exponential", "poisson", "rayleigh", "laplacian",
   "binomial"}

\* A GET /distribution/:type request has been answered.
Answered == res # None /\ req # None /\ req.type # "/"
Answered200 == Answered /\ res.status = 200

\* The running sums s[1], s[1] + s[2], ... of a sequence, added from the
\* left, sixteen at a time.
RECURSIVE SumTurns(_, _, _)
SumTurns(sums, s, n) ==
  IF n = 0 \/ Len(sums) >= Len(s) THEN sums
  ELSE SumTurns(Append(sums,
                       IF sums = <<>> THEN Add(Zero, s[1])
                       ELSE Add(sums[Len(sums)], s[Len(sums) + 1])),
                s, n - 1)
RECURSIVE SumLoop(_, _)
SumLoop(sums, s) ==
  IF Len(sums) >= Len(s) THEN sums ELSE SumLoop(SumTurns(sums, s, 16), s)
RunningSums(s) == SumLoop(<<>>, s)

One == FromInt(1)

\* C1: every type outside the seven kinds, the names an object inherits
\* included, is answered 400 {error: "Invalid distribution type"} before any
\* step of the computation is started.
C1_UnknownKindRejected ==
  (Answered /\ req.type \notin Kinds) =>
    /\ res.status = 400
    /\ res.body = [error |-> "Invalid distribution type"]
    /\ res.ran = <<>>

\* C2: every request for one of the seven kinds, whatever its parameters,
\* is answered 200 with the full result bundle; nothing throws.
C2_RegisteredKindSucceeds ==
  (Answered /\ req.type \in Kinds) =>
    /\ res.status = 200
    /\ DOMAIN res.sent = {"xValues", "pdfValues", "cdfValues", "stats",
                          "pdfExpression", "cdfExpression"}

\* The closed forms of the families at parameters in canonical order.
ClosedFormMean(type, params) ==
  CASE type = "normal" -> Arg(params, 1, FromInt(0))
    [] type = "uniform" ->
         Div(Add(Arg(params, 1, FromInt(0)), Arg(params, 2, One)), FromInt(2))
    [] type = "exponential" -> Div(One, Arg(params, 1, One))
    [] type = "poisson" -> Arg(params, 1, FromInt(3))
    [] type = "rayleigh" -> Mul(Arg(params, 1, One), MathSqrt(Div(MathPI, FromInt(2))))
    [] type = "laplacian" -> Arg(params, 1, FromInt(0))
    [] type = "binomial" -> Mul(Arg(params, 1, FromInt(10)), Arg(params, 2, Dec(5, 1)))
ClosedFormVariance(type, params) ==
  CASE type = "normal" -> Mul(Arg(params, 2, One), Arg(params, 2, One))
    [] type = "uniform" ->
         Div(MathPow(Sub(Arg(params, 2, One), Arg(params, 1, FromInt(0))), FromInt(2)),
             FromInt(12))
    [] type = "exponential" -> Div(One, MathPow(Arg(params, 1, One), FromInt(2)))
    [] type = "poisson" -> Arg(params, 1, FromInt(3))
    [] type = "rayleigh" ->
         Mul(Sub(FromInt(2), Div(MathPI, FromInt(2))),
             MathPow(Arg(params, 1, One), FromInt(2)))
    [] type = "laplacian" ->
         Mul(FromInt(2), Mul(Arg(params, 2, One), Arg(params, 2, One)))
    [] type = "binomial" ->
         Mul(Mul(Arg(params, 1, FromInt(10)), Arg(params, 2, Dec(5, 1))),
             Sub(One, Arg(params, 2, Dec(5, 1))))

\* C3: stats.mean and stats.variance are the closed forms of the family at
\* the parameters taken in canonical order (normal: variance sigma^2 of the
\* second parameter; laplacian: 2 b^2 of the second parameter).
C3_StatsAreClosedForms ==
  Answered200 =>
    LET params == queryParams(req.query) IN
      /\ res.body.stats.mean = ClosedFormMean(req.type, params)
      /\ res.body.stats.variance = ClosedFormVariance(req.type, params)

NonDecreasing(s) == \A i \in 1..(Len(s) - 1) : Le(s[i], s[i + 1])
Total(s) == RunningSums(s)[Len(s)]

\* C4 as stated: whenever the sum of the sampled densities is strictly positive,
\* cdfValues is non-decreasing and ends in 1.0, negative densities included.
C4_CdfMonotoneWheneverTotalPositive ==
  (Answered200 /\ Gt(Total(res.body.pdfValues), Zero)) =>
    /\ NonDecreasing(res.body.cdfValues)
    /\ res.body.cdfValues[Len(res.body.cdfValues)] = One

\* No sampled density is negative or NaN, and their sum is strictly positive
\* and finite.
NonNegativeDensities ==
  LET total == Total(res.body.pdfValues) IN
    /\ \A i \in 1..Len(res.body.pdfValues) : Ge(res.body.pdfValues[i], Zero)
    /\ Gt(total, Zero)
    /\ IsFinite(total)

\* C4 as amended: when no sampled density is negative or NaN and their sum is
\* strictly positive and finite, cdfValues is non-decreasing and ends in 1.0,
\* and is sent to the client as computed.
C4_CdfMonotoneForNonNegativeDensities ==
  (Answered200 /\ NonNegativeDensities) =>
    /\ NonDecreasing(res.body.cdfValues)
    /\ res.body.cdfValues[Len(res.body.cdfValues)] = One
    /\ res.sent.cdfValues = res.body.cdfValues

\* A normal request answered with a properly rising CDF.
C4_Witness ==
  /\ Answered200
  /\ req.type = "normal"
  /\ NonNegativeDensities
  /\ Lt(res.body.cdfValues[1], res.body.cdfValues[50])
  /\ Lt(res.body.cdfValues[50], res.body.cdfValues[100])

\* C5: in a 200 response xValues, pdfValues and cdfValues have one length
\* and pdfValues[i] is the density at xValues[i].
C5_SameLengthPointwise ==
  Answered200 =>
    /\ Len(res.sent.pdfValues) = Len(res.sent.xValues)
    /\ Len(res.sent.cdfValues) = Len(res.sent.xValues)
    /\ res.sent.xValues = res.body.xValues
    /\ \A i \in 1..Len(res.body.xValues) :
         res.body.pdfValues[i] =
           pdf(Registry[req.type], res.body.xValues[i], queryParams(req.query))

\* A uniform request with both parameters given, answered with 100 points
\* of which some lie inside and some outside the support.
C5_Witness ==
  /\ Answered200
  /\ req.type = "uniform"
  /\ Len(req.query) = 2
  /\ Len(res.sent.xValues) = 100
  /\ Len(res.sent.cdfValues) = 100
  /\ \E i, j \in 1..100 : ~IsZero(res.body.pdfValues[i]) /\ IsZero(res.body.pdfValues[j])

\* C6: the x-axis depends on the kind alone: 0, 1, ..., 19 for poisson and
\* binomial, the 100 points -5.0, -4.9, ..., 4.9 for the other kinds.
C6_SampleAxisByKind ==
  Answered200 =>
    IF req.type \in {"poisson", "binomial"}
      THEN /\ Len(res.sent.xValues) = 20
           /\ \A i \in 1..20 : res.sent.xValues[i] = FromInt(i - 1)
      ELSE /\ Len(res.sent.xValues) = 100
           /\ \A i \in 1..100 : res.sent.xValues[i] = Dec(i - 51, 1)

\* A binomial request with n = 20 answered: still sampled over 0..19.
C6_Witness ==
  /\ Answered200
  /\ req.type = "binomial"
  /\ Len(req.query) >= 1
  /\ parseFloat(req.query[1]) = FromInt(20)
  /\ res.sent.xValues[20] = FromInt(19)

\* The documented defaults of a kind, written out as a query.
DefaultQuery(type) ==
  CASE type \in {"normal", "uniform", "laplacian"} -> << <<"0">>, <<"1">> >>
    [] type \in {"exponential", "rayleigh"} -> << <<"1">> >>
    [] type = "poisson" -> << <<"3">> >>
    [] type = "binomial" -> << <<"1", "0">>, <<"0", ".", "5">> >>
    [] OTHER -> <<>>

\* C7: a request without parameters is answered exactly like the request
\* that writes the documented defaults out, densities and stats alike.
C7_DefaultsAsWrittenOut ==
  (Answered /\ req.type \in Kinds /\ req.query = DefaultQuery(req.type)) =>
    res = distributionHandler(Registry, req.type, <<>>)

\* s is the square root of v, up to the rounding of the last digits.
IsSqrtOf(s, v) ==
  IF IsFinite(v) /\ v.m > 0
    THEN /\ IsFinite(s)
         /\ Le(MathAbs(Sub(Mul(s, s), v)), Mul(v, Dec(1, 7)))
    ELSE s = v

\* C8 as stated: in every 200 response variance >= 0, stdDev >= 0 and stdDev
\* is the square root of variance.
C8_VarianceNonNegative ==
  Answered200 =>
    /\ Ge(res.body.stats.variance, Zero)
    /\ Ge(res.body.stats.stdDev, Zero)
    /\ IsSqrtOf(res.body.stats.stdDev, res.body.stats.variance)

\* C8 as amended: stdDev is Math.sqrt(variance): for a variance >= 0 it is
\* >= 0 and its square root; for a negative or NaN variance it is NaN, which
\* the client receives as null.
C8_StdDevIsSqrtOfVariance ==
  Answered200 =>
    IF Ge(res.body.stats.variance, Zero)
      THEN /\ Ge(res.body.stats.stdDev, Zero)
           /\ IsSqrtOf(res.body.stats.stdDev, res.body.stats.variance)
      ELSE /\ IsNaN(res.body.stats.stdDev)
           /\ res.sent.stats.stdDev = Null

\* A poisson request with a negative rate answered 200 with a negative
\* variance.
C8_Witness ==
  /\ Answered200
  /\ req.type = "poisson"
  /\ Lt(res.body.stats.variance, Zero)
  /\ res.sent.stats.variance = res.body.stats.variance
  /\ IsNaN(res.body.stats.stdDev)
  /\ res.sent.stats.stdDev = Null

\* cdfValues[i] is the i-th running sum of pdfValues over their total.
CdfIsSumOverTotal(sums) ==
  /\ Len(res.body.cdfValues) = Len(sums)
  /\ \A i \in 1..Len(sums) :
       res.body.cdfValues[i] = Div(sums[i], sums[Len(sums)])

\* C9 as stated: cdfValues[i] is the running sum over the total, and when
\* the total is exactly 0 every element is NaN and the response carries
\* those values unchanged.
C9_ZeroTotalAllNaN ==
  Answered200 =>
    LET sums == RunningSums(res.body.pdfValues) IN
      /\ CdfIsSumOverTotal(sums)
      /\ IsZero(sums[Len(sums)]) =>
           /\ \A i \in 1..Len(sums) : IsNaN(res.body.cdfValues[i])
           /\ res.sent.cdfValues = res.body.cdfValues

\* C9 as amended: cdfValues[i] is the running sum over the total; when the
\* total is exactly 0 the last element is NaN and every element is NaN
\* (running sum 0) or an infinity (running sum not 0), and the 200 response
\* carries null in place of each of them.
C9_CdfIsSumOverTotal ==
  Answered200 =>
    LET sums == RunningSums(res.body.pdfValues) IN
      /\ CdfIsSumOverTotal(sums)
      /\ IsZero(sums[Len(sums)]) =>
           /\ IsNaN(res.body.cdfValues[Len(sums)])
           /\ \A i \in 1..Len(sums) :
                /\ IF IsZero(sums[i]) THEN IsNaN(res.body.cdfValues[i])
                   ELSE IsInf(res.body.cdfValues[i])
                /\ res.sent.cdfValues[i] = Null

\* A request answered 200 whose densities cancel to a total of exactly 0:
\* infinities before the last element, NaN at it, null for the client.
C9_Witness ==
  /\ Answered200
  /\ IsZero(Total(res.body.pdfValues))
  /\ \E i \in 1..Len(res.body.cdfValues) : IsInf(res.body.cdfValues[i])
  /\ IsNaN(res.body.cdfValues[Len(res.body.cdfValues)])
  /\ \A i \in 1..Len(res.sent.cdfValues) : res.sent.cdfValues[i] = Null

\* C10: the registry is never modified, and a request is answered as the
\* same request was answered before, whatever was handled in between.
C10_RequestsIndependent ==
  /\ distributions = Registry
  /\ (seen # None /\ res # None /\ seen.req = req) => seen.res = res

\* The request a client saw answered is answered again, the same, after
\* the server has handled other requests and while one still waits.
C10_Witness ==
  /\ seen # None
  /\ res # None
  /\ seen.req = req
  /\ seen.later = "more"
  /\ seen.res = res
  /\ res.status = 200
  /\ inflight # <<>>

====
